---- MODULE Spec2Model ----
(***************************************************************************)
(* SecretBallotBox: the ballot registry, the phase gates, the encrypted    *)
(* tally and the reveal commit of the contract, together with the          *)
(* off-chain reveal drivers (the hardhat task and the frontend hook).      *)
(* Every external call of the contract is one atomic transaction; a        *)
(* reverted call changes nothing.                                          *)
(***************************************************************************)
EXTENDS Integers, Sequences, FiniteSets, TLC

(***************************************************************************)
(* Bounds of the model.                                                    *)
(***************************************************************************)
\* ballotCounter is capped: successful creations stop at MaxBallots.
MaxBallots == 2
\* block.timestamp is capped: the clock stops at MaxTime (seconds).
MaxTime == 60
\* The clock advances in blocks TickSeconds apart.
TickSeconds == 60
\* Invocations of one hook action counted as running at once, at most.
MaxInFlight == 2
\* TLC integers are 32 bits wide: the range 2^32 of uint32 is scaled down to
\* Uint32Range (every modelled tally stays below it), and the largest uint256
\* to UintMax.
Uint32Range == 4
UintMax == 100000

(***************************************************************************)
(* Program constants.                                                      *)
(***************************************************************************)
MinCandidates == 2
MaxCandidates == 10
SecondsPerMinute == 60

(***************************************************************************)
(* Inputs.                                                                 *)
(***************************************************************************)
Addresses == {"alice", "bob"}
\* address(this): the principal that FHE.allowThis grants.
Contract == "this"
Titles == {"Election"}

Names(n) == [i \in 1..n |-> i]
\* candidate arrays of length 1, 2, 10 and 11
CandidateInputs == {Names(1), Names(2), Names(10), Names(11)}
\* durationMinutes: zero, one minute, and one whose product with 60 overflows
DurationInputs == {0, 1, (UintMax \div SecondsPerMinute) + 1}
\* uint8 candidateIndex
IndexInputs == {0, 1, 10}
\* ballot ids a caller may name: the existing ones and one that does not exist
IdInputs == 0..MaxBallots
\* plaintext values of a results array: one vote, and one past the uint32 range
ValueInputs == {1, Uint32Range}
\* results arrays for a ballot of n candidates, of length n or n+1: zero
\* everywhere but for the first position
ResultInputs(n) ==
    UNION { { [i \in 1..m |-> IF i = 1 THEN v ELSE 0] : v \in ValueInputs }
            : m \in {n, n + 1} }

VARIABLES
    now,            \* block.timestamp
    ballotCounter,  \* uint256 public ballotCounter
    ballots,        \* mapping(uint256 => Ballot), on 0..ballotCounter-1
    acl,            \* the encryption service's grants: {<<handle, principal>>}
    events,         \* the events emitted so far (the log, order left out)
    hookBallots,    \* per user of the frontend hook: its `ballots` state
    revealing,      \* per user of the frontend hook: its revealResults call
    calls           \* per user of the frontend hook: its refs and the calls in flight

\* the ledger, and the frontend hooks reading it
chain == <<now, ballotCounter, ballots, acl, events>>
hook == <<hookBallots, revealing, calls>>
vars == <<chain, hook>>

(***************************************************************************)
(* The encryption service (FHE library), as the contract uses it.  A       *)
(* handle is opaque to every principal; the model identifies it by the     *)
(* counter it belongs to and the plaintext it encrypts.                    *)
(***************************************************************************)
Handle(b, c, v) == [ballot |-> b, cand |-> c, val |-> v]
\* FHE.add(h, FHE.asEuint32(1)) on euint32
FHEadd1(h) == [h EXCEPT !.val = (h.val + 1) % Uint32Range]
\* what a principal holding a grant on h decrypts
Decrypt(h) == h.val

\* a call that passed every check
OK == "ok"

(***************************************************************************)
(* Modifiers: each yields the revert reason, or OK.                        *)
(***************************************************************************)
\* mutant: a missing ballot is reported with another message
ballotExists_Renamed(id) ==
    IF id < ballotCounter THEN OK ELSE "Ballot not found"

ballotExists(id) ==
    IF id < ballotCounter THEN OK ELSE "Ballot does not exist"

\* mutant: the deadline is not checked
ballotActive_NoDeadline(id) ==
    IF ~ballots[id].isActive THEN "Ballot is not active" ELSE OK

ballotActive(id) ==
    IF ~ballots[id].isActive THEN "Ballot is not active"
    ELSE IF ~(now < ballots[id].endTime) THEN "Ballot has ended"
    ELSE OK

\* mutant: the end-time gate is missing
ballotEnded_Always(id) == OK

ballotEnded(id) ==
    IF now >= ballots[id].endTime THEN OK ELSE "Ballot is still active"

\* mutant: the duplicate-vote gate is missing
hasNotVoted_Never(id, sender) == OK

hasNotVoted(id, sender) ==
    IF sender \notin ballots[id].hasVoted THEN OK ELSE "Already voted"

(***************************************************************************)
(* createBallot                                                            *)
(***************************************************************************)
\* uint256 a + b and a * b under Solidity 0.8: an overflow panics
Overflows(x) == x > UintMax

\* mutant: the upper limit is off by one
createBallotCheck_OffByOne(candidates, durationMinutes) ==
    IF ~(Len(candidates) >= MinCandidates) THEN "At least 2 candidates required"
    ELSE IF ~(Len(candidates) <= MaxCandidates + 1) THEN "Maximum 10 candidates allowed"
    ELSE IF ~(durationMinutes > 0) THEN "Duration must be positive"
    ELSE IF Overflows(durationMinutes * SecondsPerMinute) THEN "Panic(0x11)"
    ELSE IF Overflows(now + durationMinutes * SecondsPerMinute) THEN "Panic(0x11)"
    ELSE OK

\* mutant: the duration is not checked
createBallotCheck_AnyDuration(candidates, durationMinutes) ==
    IF ~(Len(candidates) >= MinCandidates) THEN "At least 2 candidates required"
    ELSE IF ~(Len(candidates) <= MaxCandidates) THEN "Maximum 10 candidates allowed"
    ELSE IF Overflows(durationMinutes * SecondsPerMinute) THEN "Panic(0x11)"
    ELSE IF Overflows(now + durationMinutes * SecondsPerMinute) THEN "Panic(0x11)"
    ELSE OK

\* the require statements of createBallot, in order, then the checked
\* arithmetic of the endTime computation
createBallotCheck(candidates, durationMinutes) ==
    IF ~(Len(candidates) >= MinCandidates) THEN "At least 2 candidates required"
    ELSE IF ~(Len(candidates) <= MaxCandidates) THEN "Maximum 10 candidates allowed"
    ELSE IF ~(durationMinutes > 0) THEN "Duration must be positive"
    ELSE IF Overflows(durationMinutes * SecondsPerMinute) THEN "Panic(0x11)"
    ELSE IF Overflows(now + durationMinutes * SecondsPerMinute) THEN "Panic(0x11)"
    ELSE OK

\* mutant: the new ballot is stored closed
newBallot_Inactive(ballotId, sender, title, candidates, durationMinutes) ==
    [title |-> title,
     candidates |-> candidates,
     endTime |-> now + durationMinutes * SecondsPerMinute,
     isActive |-> FALSE,
     resultsRevealed |-> FALSE,
     creator |-> sender,
     totalVotes |-> 0,
     encryptedVotes |-> [i \in 1..Len(candidates) |-> Handle(ballotId, i - 1, 0)],
     finalResults |-> [i \in 1..Len(candidates) |-> 0],
     hasVoted |-> {}]

\* the Ballot record createBallot stores under ballotId
newBallot(ballotId, sender, title, candidates, durationMinutes) ==
    [title |-> title,
     candidates |-> candidates,
     endTime |-> now + durationMinutes * SecondsPerMinute,
     isActive |-> TRUE,
     resultsRevealed |-> FALSE,
     creator |-> sender,
     totalVotes |-> 0,
     encryptedVotes |-> [i \in 1..Len(candidates) |-> Handle(ballotId, i - 1, 0)],
     finalResults |-> [i \in 1..Len(candidates) |-> 0],
     hasVoted |-> {}]

\* FHE.asEuint32(0): the handle a counter starts from
newBallotCounter(ballotId, candidateIndex) == Handle(ballotId, candidateIndex, 0)

\* FHE.allowThis on every initial counter handle
newBallotGrants(ballotId, candidates) ==
    { <<Handle(ballotId, i - 1, 0), Contract>> : i \in 1..Len(candidates) }

BallotCreated(ballotId, title, creator, endTime) ==
    [name |-> "BallotCreated", ballotId |-> ballotId, title |-> title,
     creator |-> creator, endTime |-> endTime]

\* mutant: the counter is read but not incremented
createBallot_ReuseId(sender, title, candidates, durationMinutes) ==
    LET ballotId == ballotCounter
        ballot == newBallot(ballotId, sender, title, candidates, durationMinutes)
    IN  IF createBallotCheck(candidates, durationMinutes) # OK
        THEN UNCHANGED chain
        ELSE /\ ballotCounter < MaxBallots
             /\ ballots' = [i \in 0..ballotId |-> IF i = ballotId THEN ballot ELSE ballots[i]]
             /\ acl' = acl \cup newBallotGrants(ballotId, candidates)
             /\ events' = events \cup {BallotCreated(ballotId, title, sender, ballot.endTime)}
             /\ UNCHANGED <<now, ballotCounter>>

createBallot(sender, title, candidates, durationMinutes) ==
    LET ballotId == ballotCounter
        ballot == newBallot(ballotId, sender, title, candidates, durationMinutes)
    IN  IF createBallotCheck(candidates, durationMinutes) # OK
        THEN UNCHANGED chain
        ELSE /\ ballotCounter < MaxBallots
             /\ ballotCounter' = ballotCounter + 1
             /\ ballots' = [i \in 0..ballotId |-> IF i = ballotId THEN ballot ELSE ballots[i]]
             /\ acl' = acl \cup newBallotGrants(ballotId, candidates)
             /\ events' = events \cup {BallotCreated(ballotId, title, sender, ballot.endTime)}
             /\ UNCHANGED now

(***************************************************************************)
(* vote and voteEncrypted                                                  *)
(***************************************************************************)
\* the modifiers of vote and voteEncrypted, in the order they are listed
voteModifiers(ballotId, sender) ==
    IF ballotExists(ballotId) # OK THEN ballotExists(ballotId)
    ELSE IF ballotActive(ballotId) # OK THEN ballotActive(ballotId)
    ELSE hasNotVoted(ballotId, sender)

\* mutant: the candidate index is not validated
voteCheck_NoIndex(ballotId, sender, candidateIndex) ==
    voteModifiers(ballotId, sender)

voteCheck(ballotId, sender, candidateIndex) ==
    IF voteModifiers(ballotId, sender) # OK THEN voteModifiers(ballotId, sender)
    ELSE IF ~(candidateIndex < Len(ballots[ballotId].candidates)) THEN "Invalid candidate index"
    ELSE OK

\* mutant: totalVotes is not incremented
castVote_NoTotal(ballot, sender, credited) ==
    [ballot EXCEPT !.encryptedVotes[credited + 1] = FHEadd1(@),
                   !.hasVoted = @ \cup {sender}]

\* mutant: every counter of the ballot is incremented
castVote_CreditsAll(ballot, sender, credited) ==
    [ballot EXCEPT !.encryptedVotes = [i \in DOMAIN @ |-> FHEadd1(@[i])],
                   !.hasVoted = @ \cup {sender},
                   !.totalVotes = @ + 1]

\* the ballot after an accepted vote that credits counter `credited`
castVote(ballot, sender, credited) ==
    [ballot EXCEPT !.encryptedVotes[credited + 1] = FHEadd1(@),
                   !.hasVoted = @ \cup {sender},
                   !.totalVotes = @ + 1]

\* mutant: the contract's grant on the new handle is missing
voteGrants_SenderOnly(ballot, sender, credited) ==
    { <<FHEadd1(ballot.encryptedVotes[credited + 1]), sender>> }

\* FHE.allowThis and FHE.allow(.., msg.sender) on the counter's new handle
voteGrants(ballot, sender, credited) ==
    { <<FHEadd1(ballot.encryptedVotes[credited + 1]), Contract>>,
      <<FHEadd1(ballot.encryptedVotes[credited + 1]), sender>> }

\* what the voter reads through the grant of an accepted vote on counter
\* `credited`: the plaintext of the counter's new handle
voterDecrypts(ballotId, credited) ==
    Decrypt(FHEadd1(ballots[ballotId].encryptedVotes[credited + 1]))

VoteCast(ballotId, voter) ==
    [name |-> "VoteCast", ballotId |-> ballotId, voter |-> voter]

vote(sender, ballotId, candidateIndex) ==
    IF voteCheck(ballotId, sender, candidateIndex) # OK
    THEN UNCHANGED chain
    ELSE /\ ballots' = [ballots EXCEPT ![ballotId] = castVote(@, sender, candidateIndex)]
         /\ acl' = acl \cup voteGrants(ballots[ballotId], sender, candidateIndex)
         /\ events' = events \cup {VoteCast(ballotId, sender)}
         /\ UNCHANGED <<now, ballotCounter>>

\* An externally encrypted input: the calldata shows a ciphertext handle and a
\* proof; the chosen index stays hidden.  FHE.fromExternal reverts on a proof
\* that does not verify.
EncryptedInputs == [choice : IndexInputs, proofValid : BOOLEAN]

\* mutant: the proof is not verified
voteEncryptedCheck_NoProof(ballotId, sender, input) ==
    voteModifiers(ballotId, sender)

voteEncryptedCheck(ballotId, sender, input) ==
    IF voteModifiers(ballotId, sender) # OK THEN voteModifiers(ballotId, sender)
    ELSE IF ~input.proofValid THEN "Invalid input proof"
    ELSE OK

\* the counter voteEncrypted credits: always the first
creditedByEncrypted(input) == 0

voteEncrypted(sender, ballotId, input) ==
    IF voteEncryptedCheck(ballotId, sender, input) # OK
    THEN UNCHANGED chain
    ELSE /\ ballots' = [ballots EXCEPT ![ballotId] =
                            castVote(@, sender, creditedByEncrypted(input))]
         /\ acl' = acl \cup voteGrants(ballots[ballotId], sender, creditedByEncrypted(input))
         /\ events' = events \cup {VoteCast(ballotId, sender)}
         /\ UNCHANGED <<now, ballotCounter>>

\* What a public observer sees of an accepted vote transaction: the function
\* called, the sender, the calldata in the clear, the event, and the counters
\* whose handle changed.
ChangedCounters(before, after) ==
    { c \in 0..(Len(before.candidates) - 1) :
        after.encryptedVotes[c + 1] # before.encryptedVotes[c + 1] }

votePublicView(sender, ballotId, candidateIndex) ==
    [function |-> "vote", sender |-> sender, ballotId |-> ballotId,
     calldata |-> candidateIndex,
     event |-> VoteCast(ballotId, sender),
     changed |-> ChangedCounters(ballots[ballotId],
                                 castVote(ballots[ballotId], sender, candidateIndex))]

\* the calldata of voteEncrypted is a ciphertext and its proof, which show
\* nothing of the index they encrypt
voteEncryptedPublicView(sender, ballotId, input) ==
    [function |-> "voteEncrypted", sender |-> sender, ballotId |-> ballotId,
     calldata |-> [ciphertext |-> "externalEuint8", proofValid |-> input.proofValid],
     event |-> VoteCast(ballotId, sender),
     changed |-> ChangedCounters(ballots[ballotId],
                                 castVote(ballots[ballotId], sender,
                                          creditedByEncrypted(input)))]

(***************************************************************************)
(* setResults                                                              *)
(***************************************************************************)
\* mutant: the already-revealed check is missing
setResultsCheck_Repeatable(ballotId, results) ==
    IF ballotExists(ballotId) # OK THEN ballotExists(ballotId)
    ELSE IF ballotEnded(ballotId) # OK THEN ballotEnded(ballotId)
    ELSE IF ~(Len(results) = Len(ballots[ballotId].candidates)) THEN "Invalid results length"
    ELSE OK

setResultsCheck(ballotId, results) ==
    IF ballotExists(ballotId) # OK THEN ballotExists(ballotId)
    ELSE IF ballotEnded(ballotId) # OK THEN ballotEnded(ballotId)
    ELSE IF ballots[ballotId].resultsRevealed THEN "Results already revealed"
    ELSE IF ~(Len(results) = Len(ballots[ballotId].candidates)) THEN "Invalid results length"
    ELSE OK

\* uint32(x) of a uint256 x: the low bits are kept
uint32(x) == x % Uint32Range

\* mutant: the results are written without the flag
storeResults_NoFlag(ballot, results) ==
    [ballot EXCEPT !.finalResults = [i \in 1..Len(results) |-> uint32(results[i])]]

\* mutant: the commit also clears the participation set
storeResults_ClearsVoters(ballot, results) ==
    [ballot EXCEPT !.finalResults = [i \in 1..Len(results) |-> uint32(results[i])],
                   !.resultsRevealed = TRUE,
                   !.hasVoted = {}]

\* the ballot after the commit: every finalResults entry and the flag
storeResults(ballot, results) ==
    [ballot EXCEPT !.finalResults = [i \in 1..Len(results) |-> uint32(results[i])],
                   !.resultsRevealed = TRUE]

ResultsRevealed(ballotId, results) ==
    [name |-> "ResultsRevealed", ballotId |-> ballotId, results |-> results]

setResults(sender, ballotId, results) ==
    IF setResultsCheck(ballotId, results) # OK
    THEN UNCHANGED chain
    ELSE /\ ballots' = [ballots EXCEPT ![ballotId] = storeResults(@, results)]
         /\ events' = events \cup {ResultsRevealed(ballotId, results)}
         /\ UNCHANGED <<now, ballotCounter, acl>>

(***************************************************************************)
(* Views: the value each returns, and the revert reason of each.           *)
(***************************************************************************)
getEncryptedVoteCountCheck(ballotId, candidateIndex) ==
    IF ballotExists(ballotId) # OK THEN ballotExists(ballotId)
    ELSE IF ~(candidateIndex < Len(ballots[ballotId].candidates)) THEN "Invalid candidate index"
    ELSE OK

getEncryptedVoteCount(ballotId, candidateIndex) ==
    ballots[ballotId].encryptedVotes[candidateIndex + 1]

getBallotInfoCheck(ballotId) == ballotExists(ballotId)

\* the tuple getBallotInfo returns; isActive is recomputed from the clock
getBallotInfo(ballotId) ==
    [title |-> ballots[ballotId].title,
     candidates |-> ballots[ballotId].candidates,
     endTime |-> ballots[ballotId].endTime,
     isActive |-> ballots[ballotId].isActive /\ now < ballots[ballotId].endTime,
     resultsRevealed |-> ballots[ballotId].resultsRevealed,
     creator |-> ballots[ballotId].creator,
     totalVotes |-> ballots[ballotId].totalVotes]

\* mutant: the gate is the end time instead of the reveal
getResultsCheck_AfterEnd(ballotId) ==
    IF ballotExists(ballotId) # OK THEN ballotExists(ballotId)
    ELSE IF ballotEnded(ballotId) # OK THEN "Results not yet revealed"
    ELSE OK

getResultsCheck(ballotId) ==
    IF ballotExists(ballotId) # OK THEN ballotExists(ballotId)
    ELSE IF ~ballots[ballotId].resultsRevealed THEN "Results not yet revealed"
    ELSE OK

\* the array getResults builds: one entry per candidate
getResults(ballotId) ==
    [i \in 1..Len(ballots[ballotId].candidates) |-> ballots[ballotId].finalResults[i]]

hasVotedCheck(ballotId, voter) == ballotExists(ballotId)

hasVoted(ballotId, voter) == voter \in ballots[ballotId].hasVoted

getTotalBallots == ballotCounter

\* the ids for which keep holds, as the two-pass scan collects them
RECURSIVE Scan(_, _)
Scan(i, keep) ==
    IF i >= ballotCounter THEN <<>>
    ELSE IF i \in keep THEN <<i>> \o Scan(i + 1, keep) ELSE Scan(i + 1, keep)

getActiveBallots ==
    Scan(0, { i \in 0..(ballotCounter - 1) : ballots[i].isActive /\ now < ballots[i].endTime })

\* mutant: a ballot counts as ended only after its end time has passed
getEndedBallots_Strict ==
    Scan(0, { i \in 0..(ballotCounter - 1) : now > ballots[i].endTime })

getEndedBallots ==
    Scan(0, { i \in 0..(ballotCounter - 1) : now >= ballots[i].endTime })

(***************************************************************************)
(* The chain: a new block carries a later timestamp.                       *)
(***************************************************************************)
AdvanceTime ==
    /\ now + TickSeconds <= MaxTime
    /\ now' = now + TickSeconds
    /\ UNCHANGED <<ballotCounter, ballots, acl, events>>
    /\ UNCHANGED hook

(***************************************************************************)
(* The contract under arbitrary callers.                                   *)
(***************************************************************************)
\* a hook that is not revealing
NoBallot == [id |-> -1]
Idle == [pc |-> "idle", ballotId |-> 0, ballot |-> NoBallot, results |-> <<>>,
         outcome |-> "none"]
\* a hook with no load, create or vote in flight: the three refs, the number
\* of invocations of each that are running, where each stands, what a running
\* load has read, and the hook's error state
NoCalls == [loadFlag |-> FALSE, loadN |-> 0, loadPc |-> "idle", loadData |-> <<>>,
            createFlag |-> FALSE, createN |-> 0, createPc |-> "idle",
            voteFlag |-> FALSE, voteN |-> 0, votePc |-> "idle",
            error |-> FALSE]

Init ==
    /\ now = 0
    /\ ballotCounter = 0
    /\ ballots = <<>>
    /\ acl = {}
    /\ events = {}
    /\ hookBallots = [u \in Addresses |-> <<>>]
    /\ revealing = [u \in Addresses |-> Idle]
    /\ calls = [u \in Addresses |-> NoCalls]

CallCreateBallot ==
    /\ \E s \in Addresses, t \in Titles, c \in CandidateInputs, d \in DurationInputs :
          createBallot(s, t, c, d)
    /\ UNCHANGED hook

CallVote ==
    /\ \E s \in Addresses, id \in IdInputs, c \in IndexInputs : vote(s, id, c)
    /\ UNCHANGED hook

CallVoteEncrypted ==
    /\ \E s \in Addresses, id \in IdInputs, e \in EncryptedInputs : voteEncrypted(s, id, e)
    /\ UNCHANGED hook

\* the arrays a caller may pass for ballot id
ResultInputsFor(id) ==
    ResultInputs(IF id < ballotCounter THEN Len(ballots[id].candidates) ELSE MinCandidates)

CallSetResults ==
    /\ \E s \in Addresses, id \in IdInputs : \E r \in ResultInputsFor(id) : setResults(s, id, r)
    /\ UNCHANGED hook

Next ==
    \/ CallCreateBallot
    \/ CallVote
    \/ CallVoteEncrypted
    \/ CallSetResults
    \/ AdvanceTime

Spec == Init /\ [][Next]_vars

(***************************************************************************)
(* The frontend hook useSecretBallotBox, one instance per user.  The hook  *)
(* reads the clock of the chain (Date.now() and block.timestamp agree),    *)
(* and the reads of one loadBallots call are served from one block.        *)
(***************************************************************************)
\* the BallotInfo loadBallots builds for ballot id, for the user's address
transformedBallot(u, id) ==
    [id |-> id,
     title |-> getBallotInfo(id).title,
     candidates |-> getBallotInfo(id).candidates,
     endTime |-> getBallotInfo(id).endTime,
     isActive |-> ~(now >= getBallotInfo(id).endTime) /\ getBallotInfo(id).isActive,
     resultsRevealed |-> getBallotInfo(id).resultsRevealed,
     creator |-> getBallotInfo(id).creator,
     totalVotes |-> getBallotInfo(id).totalVotes,
     hasUserVoted |-> hasVoted(id, u)]

\* the list loadBallots stores: one entry per ballot of getTotalBallots
transformedBallots(u) == [i \in 1..getTotalBallots |-> transformedBallot(u, i - 1)]

\* mutant: the ref is not consulted
mayStart_Always(flag) == TRUE

\* the guard that opens loadBallots, createBallot and vote: the action's ref
\* must be clear, or the call returns at once
mayStart(flag) == ~flag

\* loadBallots run to its end in one step: guarded by isLoadingRef
loadBallots(u) ==
    /\ hookBallots' = [hookBallots EXCEPT ![u] =
                           IF mayStart(calls[u].loadFlag) THEN transformedBallots(u) ELSE @]
    /\ UNCHANGED chain

\* ballots.find(b => b.id === ballotId)
findBallot(u, ballotId) ==
    IF \E i \in 1..Len(hookBallots[u]) : hookBallots[u][i].id = ballotId
    THEN hookBallots[u][ballotId + 1]
    ELSE NoBallot

\* revealResults up to its first await: the guard, the lookup in the hook's
\* list, the check of the listed resultsRevealed
revealBegin(u, ballotId) ==
    /\ revealing[u].pc = "idle"
    /\ revealing' = [revealing EXCEPT ![u] =
          IF findBallot(u, ballotId) = NoBallot
          THEN [Idle EXCEPT !.outcome = "Ballot not found"]
          ELSE IF findBallot(u, ballotId).resultsRevealed
          THEN [Idle EXCEPT !.pc = "reload", !.ballotId = ballotId,
                            !.outcome = "already revealed"]
          ELSE [Idle EXCEPT !.pc = "check", !.ballotId = ballotId,
                            !.ballot = findBallot(u, ballotId)]]
    /\ UNCHANGED <<chain, hookBallots, calls>>

\* the fresh getBallotInfo and the end-time check against the listed endTime
revealCheck(u) ==
    /\ revealing[u].pc = "check"
    /\ revealing' = [revealing EXCEPT ![u] =
          IF getBallotInfo(revealing[u].ballotId).resultsRevealed
          THEN [revealing[u] EXCEPT !.pc = "reload", !.ballot = NoBallot,
                                    !.outcome = "already revealed"]
          ELSE IF now < revealing[u].ballot.endTime
          THEN [Idle EXCEPT !.outcome = "still active"]
          ELSE [revealing[u] EXCEPT !.pc = "decrypt"]]
    /\ UNCHANGED <<chain, hookBallots, calls>>

\* the array the decryption loop leaves: 0 for every candidate, then the
\* listed totalVotes in the first position when it is positive
decryptedResults(ballot) ==
    [i \in 1..Len(ballot.candidates) |->
        IF i = 1 /\ ballot.totalVotes > 0 THEN ballot.totalVotes ELSE 0]

revealDecrypt(u) ==
    /\ revealing[u].pc = "decrypt"
    /\ revealing' = [revealing EXCEPT ![u] =
          [revealing[u] EXCEPT !.pc = "commit", !.ballot = NoBallot,
                               !.results = decryptedResults(revealing[u].ballot)]]
    /\ UNCHANGED <<chain, hookBallots, calls>>

\* where revealResults goes after the transaction: on success and on 'Results
\* already revealed' it reloads the list, on any other error it ends
afterCommit(reason) ==
    IF reason = OK \/ reason = "Results already revealed" THEN "reload" ELSE "idle"

\* the setResults transaction of the hook's signer
revealCommit(u) ==
    /\ revealing[u].pc = "commit"
    /\ setResults(u, revealing[u].ballotId, revealing[u].results)
    /\ revealing' = [revealing EXCEPT ![u] =
          [revealing[u] EXCEPT
              !.pc = afterCommit(setResultsCheck(revealing[u].ballotId, revealing[u].results)),
              !.outcome = setResultsCheck(revealing[u].ballotId, revealing[u].results)]]
    /\ UNCHANGED <<hookBallots, calls>>

\* the loadBallots that ends revealResults, and the finally block
revealReload(u) ==
    /\ revealing[u].pc = "reload"
    /\ loadBallots(u)
    /\ revealing' = [revealing EXCEPT ![u].pc = "idle"]
    /\ UNCHANGED calls

\* the array task:reveal-results submits for ballotId when the decryption of
\* the counters in `failed` throws: 0 there, the decrypted count elsewhere
taskResults(ballotId, failed) ==
    [i \in 1..Len(getBallotInfo(ballotId).candidates) |->
        IF (i - 1) \in failed THEN 0
        ELSE Decrypt(getEncryptedVoteCount(ballotId, i - 1))]

(***************************************************************************)
(* The contract driven through the hooks of two users: one ballot of two   *)
(* candidates, votes sent to the contract, reveals through revealResults.  *)
(***************************************************************************)
HookCreateBallot ==
    /\ ballotCounter = 0
    /\ \E t \in Titles : createBallot("alice", t, Names(MinCandidates), 1)
    /\ UNCHANGED hook

\* the encrypted input of the votes of this scenario: the second candidate,
\* with a proof that verifies
HookInput == [choice |-> 1, proofValid |-> TRUE]

\* a voteEncrypted transaction reaching the contract, from any client; the
\* hooks learn of it through loadBallots
HookVote ==
    /\ \E s \in Addresses, id \in IdInputs : voteEncrypted(s, id, HookInput)
    /\ UNCHANGED hook

HookLoad == \E u \in Addresses : loadBallots(u) /\ UNCHANGED <<revealing, calls>>

HookReveal ==
    \E u \in Addresses :
        \/ \E id \in IdInputs : revealBegin(u, id)
        \/ revealCheck(u)
        \/ revealDecrypt(u)
        \/ revealCommit(u)
        \/ revealReload(u)

NextHook ==
    \/ HookCreateBallot
    \/ HookVote
    \/ HookLoad
    \/ HookReveal
    \/ AdvanceTime

SpecHook == Init /\ [][NextHook]_vars

(***************************************************************************)
(* The hook's loadBallots, createBallot and vote step by step, each from   *)
(* one await to the next, for one user on one ballot.  A call that finds   *)
(* its ref set returns at once and is no step.  The reads of one           *)
(* loadBallots are served from one block and succeed or fail together.     *)
(***************************************************************************)
Caller == "alice"

\* the end of a loadBallots (its finally block), and of the createBallot or
\* vote that was awaiting it
finishLoad(c, failed) ==
    [c EXCEPT !.loadFlag = FALSE, !.loadN = @ - 1, !.loadPc = "idle", !.loadData = <<>>,
              !.error = IF failed THEN TRUE ELSE @,
              !.createFlag = IF c.createPc = "await" THEN FALSE ELSE @,
              !.createN = IF c.createPc = "await" THEN @ - 1 ELSE @,
              !.createPc = IF c.createPc = "await" THEN "idle" ELSE @,
              !.voteFlag = IF c.votePc = "await" THEN FALSE ELSE @,
              !.voteN = IF c.votePc = "await" THEN @ - 1 ELSE @,
              !.votePc = IF c.votePc = "await" THEN "idle" ELSE @]

\* the finally block of createBallot and of vote
finishCreate(c, failed) ==
    [c EXCEPT !.createFlag = FALSE, !.createN = @ - 1, !.createPc = "idle",
              !.error = IF failed THEN TRUE ELSE @]

finishVote(c, failed) ==
    [c EXCEPT !.voteFlag = FALSE, !.voteN = @ - 1, !.votePc = "idle",
              !.error = IF failed THEN TRUE ELSE @]

\* loadBallots up to its first await
startLoad(c) ==
    [c EXCEPT !.loadFlag = TRUE, !.loadN = @ + 1, !.loadPc = "reading", !.error = FALSE]

loadBegin(u) ==
    /\ mayStart(calls[u].loadFlag)
    /\ calls[u].loadN < MaxInFlight
    /\ calls' = [calls EXCEPT ![u] = startLoad(@)]
    /\ UNCHANGED <<chain, hookBallots, revealing>>

\* the reads: with no ballot the list is emptied and the call returns,
\* otherwise the transformed list is held until setBallots
loadRead(u) ==
    /\ calls[u].loadPc = "reading"
    /\ IF getTotalBallots = 0
       THEN /\ hookBallots' = [hookBallots EXCEPT ![u] = <<>>]
            /\ calls' = [calls EXCEPT ![u] = finishLoad(@, FALSE)]
       ELSE /\ calls' = [calls EXCEPT ![u].loadPc = "loaded",
                                      ![u].loadData = transformedBallots(u)]
            /\ UNCHANGED hookBallots
    /\ UNCHANGED <<chain, revealing>>

\* setBallots with what was read, then the finally block
loadEnd(u) ==
    /\ calls[u].loadPc = "loaded"
    /\ hookBallots' = [hookBallots EXCEPT ![u] = calls[u].loadData]
    /\ calls' = [calls EXCEPT ![u] = finishLoad(@, FALSE)]
    /\ UNCHANGED <<chain, revealing>>

\* a read throws: the catch sets the error, the list is left as it was
loadFail(u) ==
    /\ calls[u].loadPc = "reading"
    /\ calls' = [calls EXCEPT ![u] = finishLoad(@, TRUE)]
    /\ UNCHANGED <<chain, hookBallots, revealing>>

\* `await loadBallots()` at the end of createBallot and of vote: loadBallots
\* returns at once when a load is in flight, and otherwise starts one that
\* the action awaits
reloadAfterCreate(c) ==
    IF mayStart(c.loadFlag) THEN [startLoad(c) EXCEPT !.createPc = "await"]
    ELSE finishCreate(c, FALSE)

reloadAfterVote(c) ==
    IF mayStart(c.loadFlag) THEN [startLoad(c) EXCEPT !.votePc = "await"]
    ELSE finishVote(c, FALSE)

createBegin(u) ==
    /\ mayStart(calls[u].createFlag)
    /\ calls[u].createN < MaxInFlight
    /\ ballotCounter = 0
    /\ calls' = [calls EXCEPT ![u] =
                    [@ EXCEPT !.createFlag = TRUE, !.createN = @ + 1,
                              !.createPc = "sending", !.error = FALSE]]
    /\ UNCHANGED <<chain, hookBallots, revealing>>

\* the createBallot transaction is mined, or sending it throws
createSend(u) ==
    /\ calls[u].createPc = "sending"
    /\ \/ /\ \E t \in Titles : createBallot(u, t, Names(MinCandidates), 1)
          /\ calls' = [calls EXCEPT ![u].createPc = "reload"]
       \/ /\ UNCHANGED chain
          /\ calls' = [calls EXCEPT ![u] = finishCreate(@, TRUE)]
    /\ UNCHANGED <<hookBallots, revealing>>

createReload(u) ==
    /\ calls[u].createPc = "reload"
    /\ calls' = [calls EXCEPT ![u] = reloadAfterCreate(@)]
    /\ UNCHANGED <<chain, hookBallots, revealing>>

voteBegin(u) ==
    /\ mayStart(calls[u].voteFlag)
    /\ calls[u].voteN < MaxInFlight
    /\ calls' = [calls EXCEPT ![u] =
                    [@ EXCEPT !.voteFlag = TRUE, !.voteN = @ + 1,
                              !.votePc = "sending", !.error = FALSE]]
    /\ UNCHANGED <<chain, hookBallots, revealing>>

\* the voteEncrypted transaction on ballot 0 is mined, or it reverts
voteSend(u) ==
    /\ calls[u].votePc = "sending"
    /\ voteEncrypted(u, 0, HookInput)
    /\ calls' = [calls EXCEPT ![u] =
                    IF voteEncryptedCheck(0, u, HookInput) = OK
                    THEN [@ EXCEPT !.votePc = "reload"]
                    ELSE finishVote(@, TRUE)]
    /\ UNCHANGED <<hookBallots, revealing>>

voteReload(u) ==
    /\ calls[u].votePc = "reload"
    /\ calls' = [calls EXCEPT ![u] = reloadAfterVote(@)]
    /\ UNCHANGED <<chain, hookBallots, revealing>>

NextCalls ==
    \/ loadBegin(Caller)
    \/ loadRead(Caller)
    \/ loadEnd(Caller)
    \/ loadFail(Caller)
    \/ createBegin(Caller)
    \/ createSend(Caller)
    \/ createReload(Caller)
    \/ voteBegin(Caller)
    \/ voteSend(Caller)
    \/ voteReload(Caller)
    \/ \E id \in IdInputs : revealBegin(Caller, id)
    \/ revealCheck(Caller)
    \/ revealDecrypt(Caller)
    \/ revealCommit(Caller)
    \/ revealReload(Caller)
    \/ AdvanceTime

\* what runs without the user: a call that has started goes on to its next
\* await (the JavaScript event loop resumes every pending continuation, and
\* every transaction sent is mined or rejected)
Continuations ==
    /\ WF_vars(loadRead(Caller))
    /\ WF_vars(loadEnd(Caller))
    /\ WF_vars(createSend(Caller))
    /\ WF_vars(createReload(Caller))
    /\ WF_vars(voteSend(Caller))
    /\ WF_vars(voteReload(Caller))
    /\ WF_vars(revealCheck(Caller))
    /\ WF_vars(revealDecrypt(Caller))
    /\ WF_vars(revealCommit(Caller))
    /\ WF_vars(revealReload(Caller))

SpecCalls == Init /\ [][NextCalls]_vars /\ Continuations

(***************************************************************************)
(* Properties                                                              *)
(***************************************************************************)
Ids == 0..(ballotCounter - 1)

RECURSIVE SumSeq(_)
SumSeq(q) == IF q = <<>> THEN 0 ELSE Head(q) + SumSeq(Tail(q))

\* C1 (as stated): whenever v has voted on b, every vote or voteEncrypted call
\* by v on b fails with 'Already voted'.
C1_AlwaysAlreadyVoted ==
    \A b \in Ids : \A v \in ballots[b].hasVoted :
        /\ \A c \in IndexInputs : voteCheck(b, v, c) = "Already voted"
        /\ \A e \in EncryptedInputs : voteEncryptedCheck(b, v, e) = "Already voted"

\* the reason a repeated vote is refused with
RepeatReason(b) == IF now < ballots[b].endTime THEN "Already voted" ELSE "Ballot has ended"

\* C1 (amended): once v has voted on b, every vote or voteEncrypted call by v
\* on b fails, with 'Already voted' while now < endTime(b) and with 'Ballot has
\* ended' from endTime(b) on, and the step leaves every ballot unchanged; so v
\* is counted at most once: totalVotes(b) never exceeds the number of voters.
C1_OneVotePerAddress ==
    /\ [](\A b \in Ids : \A v \in ballots[b].hasVoted :
            /\ \A c \in IndexInputs : voteCheck(b, v, c) = RepeatReason(b)
            /\ \A e \in EncryptedInputs : voteEncryptedCheck(b, v, e) = RepeatReason(b))
    /\ [][\A b \in Ids : \A v \in ballots[b].hasVoted :
            /\ ballots' # ballots \/ acl' # acl =>
                  /\ \A c \in IndexInputs : ~vote(v, b, c)
                  /\ \A e \in EncryptedInputs : ~voteEncrypted(v, b, e)
            /\ ballots'[b].hasVoted = ballots[b].hasVoted =>
                  /\ ballots'[b].totalVotes = ballots[b].totalVotes
                  /\ ballots'[b].encryptedVotes = ballots[b].encryptedVotes]_vars

\* one voter has voted on a ballot that is still open, the other has not
C1_Witness ==
    \E b \in Ids : /\ ballots[b].hasVoted = {"alice"}
                   /\ ballots[b].totalVotes = 1
                   /\ now < ballots[b].endTime

\* C2: totalVotes(b) is the number of addresses v with hasVoted(b, v).
C2_TotalVotesCountsVoters ==
    \A b \in Ids :
        ballots[b].totalVotes = Cardinality({v \in Addresses : hasVoted(b, v)})

\* both addresses have voted on one ballot, one through each entry point
C2_Witness ==
    \E b \in Ids : /\ ballots[b].totalVotes = 2
                   /\ ballots[b].encryptedVotes[1].val = 1
                   /\ ballots[b].encryptedVotes[2].val = 1

\* C3: once revealed, the finalResults of a ballot sum to its totalVotes.
C3_RevealedSumIsTotal ==
    \A b \in Ids :
        ballots[b].resultsRevealed => SumSeq(getResults(b)) = ballots[b].totalVotes

\* C4: a commit before endTime fails with 'Ballot is still active' and changes
\* nothing, so a revealed ballot has now >= endTime.
C4_RevealOnlyAfterEnd ==
    /\ [](\A b \in Ids :
            /\ now < ballots[b].endTime =>
                 \A r \in ResultInputsFor(b) : setResultsCheck(b, r) = "Ballot is still active"
            /\ ballots[b].resultsRevealed => now >= ballots[b].endTime)
    /\ [][\A b \in Ids : now < ballots[b].endTime /\ chain' # chain =>
            \A s \in Addresses : \A r \in ResultInputsFor(b) : ~setResults(s, b, r)]_vars

\* a ballot revealed at its end time while another is still open
C4_Witness ==
    \E b, o \in Ids : /\ ballots[b].resultsRevealed
                      /\ now >= ballots[b].endTime
                      /\ now < ballots[o].endTime

\* C5: after a reveal every further commit fails with 'Results already
\* revealed', whatever array it carries, and finalResults and resultsRevealed
\* never change again.
C5_RevealOnce ==
    /\ [](\A b \in Ids : ballots[b].resultsRevealed =>
            \A r \in ResultInputsFor(b) : setResultsCheck(b, r) = "Results already revealed")
    /\ [][\A b \in Ids : ballots[b].resultsRevealed =>
            /\ ballots'[b].resultsRevealed
            /\ ballots'[b].finalResults = ballots[b].finalResults
            /\ chain' # chain =>
                  \A s \in Addresses : \A r \in ResultInputsFor(b) : ~setResults(s, b, r)]_vars

\* a revealed ballot whose stored result differs from an array a caller may
\* still submit
C5_Witness ==
    \E b \in Ids : /\ ballots[b].resultsRevealed
                   /\ ballots[b].finalResults[1] = 1
                   /\ \E r \in ResultInputsFor(b) :
                        /\ Len(r) = Len(ballots[b].candidates)
                        /\ uint32(r[1]) # 1

\* C6: getResults fails with 'Results not yet revealed' while the ballot is not
\* revealed, also after its end, and after the reveal returns one count per
\* candidate.
C6_ResultsOnlyWhenRevealed ==
    \A b \in Ids :
        /\ ~ballots[b].resultsRevealed => getResultsCheck(b) = "Results not yet revealed"
        /\ ballots[b].resultsRevealed =>
              /\ getResultsCheck(b) = OK
              /\ Len(getResults(b)) = Len(ballots[b].candidates)
              /\ \A i \in 1..Len(ballots[b].candidates) :
                    getResults(b)[i] = ballots[b].finalResults[i]

\* two ended ballots, one revealed and one still pending
C6_Witness ==
    \E b, o \in Ids : /\ ballots[b].resultsRevealed
                      /\ ~ballots[o].resultsRevealed
                      /\ now >= ballots[o].endTime

\* the setResults transaction of u's last revealResults has been mined
Committed(u) ==
    revealing[u].outcome \in {OK, "Ballot does not exist", "Ballot is still active",
                              "Results already revealed"}

\* C7: when the revealResults of two callers have both sent their commit for
\* one ballot, exactly one of the two commits has succeeded, the other has
\* failed with 'Results already revealed', and the stored finalResults are the
\* array of the commit that succeeded.
C7_OneCommitWins ==
    \A a \in Addresses : \A b \in Addresses \ {a} :
        (/\ Committed(a)
         /\ Committed(b)
         /\ revealing[a].ballotId = revealing[b].ballotId) =>
            /\ OK \in {revealing[a].outcome, revealing[b].outcome}
            /\ revealing[a].outcome = OK =>
                  /\ revealing[b].outcome = "Results already revealed"
                  /\ ballots[revealing[a].ballotId].resultsRevealed
                  /\ ballots[revealing[a].ballotId].finalResults = revealing[a].results

\* both callers have sent a commit for the same ballot, with different arrays
C7_Witness ==
    \E a \in Addresses : \E b \in Addresses \ {a} :
        /\ revealing[a].outcome = OK
        /\ revealing[b].outcome = "Results already revealed"
        /\ revealing[a].ballotId = revealing[b].ballotId
        /\ revealing[a].results # revealing[b].results

\* C8: before the reveal, two accepted votes of one voter that differ only in
\* the candidate chosen look the same to a public observer, through vote and
\* through voteEncrypted.
C8_ChoiceHidden ==
    \A b \in Ids : \A v \in Addresses :
        ~ballots[b].resultsRevealed =>
            /\ \A c1, c2 \in IndexInputs :
                  voteCheck(b, v, c1) = OK /\ voteCheck(b, v, c2) = OK =>
                      votePublicView(v, b, c1) = votePublicView(v, b, c2)
            /\ \A e1, e2 \in EncryptedInputs :
                  /\ voteEncryptedCheck(b, v, e1) = OK
                  /\ voteEncryptedCheck(b, v, e2) = OK
                  => voteEncryptedPublicView(v, b, e1) = voteEncryptedPublicView(v, b, e2)

\* the message createBallot rejects a bad candidate count with
CountReason(candidates) ==
    IF Len(candidates) < MinCandidates THEN "At least 2 candidates required"
    ELSE IF Len(candidates) > MaxCandidates THEN "Maximum 10 candidates allowed"
    ELSE OK

\* C9: every ballot has 2 to 10 candidates, fixed at creation; createBallot
\* with fewer than 2 fails with 'At least 2 candidates required', with more
\* than 10 with 'Maximum 10 candidates allowed', and adds no ballot.
C9_CandidateCount ==
    /\ [](/\ \A b \in Ids : /\ Len(ballots[b].candidates) >= 2
                            /\ Len(ballots[b].candidates) <= 10
          /\ \A c \in CandidateInputs : \A d \in DurationInputs :
                /\ Len(c) < 2 => createBallotCheck(c, d) = "At least 2 candidates required"
                /\ Len(c) > 10 => createBallotCheck(c, d) = "Maximum 10 candidates allowed")
    /\ [][/\ \A b \in Ids : ballots'[b].candidates = ballots[b].candidates
          /\ chain' # chain =>
                \A s \in Addresses : \A t \in Titles :
                    \A c \in CandidateInputs : \A d \in DurationInputs :
                        CountReason(c) # OK => ~createBallot(s, t, c, d)]_vars

\* a ballot at each end of the range
C9_Witness ==
    \E b, o \in Ids : /\ Len(ballots[b].candidates) = 2
                      /\ Len(ballots[o].candidates) = 10

\* C10 (as stated): createBallot with duration 0 fails with 'Duration must be
\* positive', whatever the candidates.
C10_ZeroDurationReason ==
    \A c \in CandidateInputs : createBallotCheck(c, 0) = "Duration must be positive"

\* C10 (amended): createBallot with duration 0 fails, with 'Duration must be
\* positive' when the candidate count is within 2..10 and with the
\* candidate-count message otherwise, and changes nothing; every ballot that
\* is created has endTime above its creation time and is reported active
\* in the state it is created in.
C10_PositiveDuration ==
    /\ [](\A c \in CandidateInputs :
            createBallotCheck(c, 0) =
                IF CountReason(c) # OK THEN CountReason(c) ELSE "Duration must be positive")
    /\ [][/\ chain' # chain =>
                \A s \in Addresses : \A t \in Titles : \A c \in CandidateInputs :
                    ~createBallot(s, t, c, 0)
          /\ ballotCounter' # ballotCounter =>
                /\ ballots'[ballotCounter].endTime > now
                /\ ballots'[ballotCounter].isActive
                /\ now' < ballots'[ballotCounter].endTime]_vars

\* a ballot created after the clock has moved, still open
C10_Witness ==
    \E b \in Ids : /\ now > 0
                   /\ ballots[b].endTime = now + SecondsPerMinute
                   /\ getBallotInfo(b).isActive

\* the ids a list holds, and whether it holds none of them twice
Range(q) == { q[i] : i \in 1..Len(q) }
NoRepeat(q) == Cardinality(Range(q)) = Len(q)

\* C11: every existing ballot id is in exactly one of getActiveBallots and
\* getEndedBallots, and in getActiveBallots exactly when getBallotInfo reports
\* it active; when the clock alone reaches endTime the ballot is in the ended
\* list of the next state.
C11_ListsPartitionIds ==
    /\ [](/\ Range(getActiveBallots) \cup Range(getEndedBallots) = Ids
          /\ Range(getActiveBallots) \cap Range(getEndedBallots) = {}
          /\ NoRepeat(getActiveBallots)
          /\ NoRepeat(getEndedBallots)
          /\ \A b \in Ids : b \in Range(getActiveBallots) <=> getBallotInfo(b).isActive)
    /\ [][(now' # now /\ ballots' = ballots) =>
             \A b \in Ids :
                 (now < ballots[b].endTime /\ now' >= ballots[b].endTime) =>
                     /\ b \in Range(getActiveBallots)
                     /\ b \in Range(getEndedBallots)'
                     /\ b \notin Range(getActiveBallots)']_vars

\* one ballot has ended at exactly its end time while another is still open
C11_Witness ==
    \E a \in Ids : \E b \in Ids :
        /\ now = ballots[a].endTime
        /\ a \in Range(getEndedBallots)
        /\ b \in Range(getActiveBallots)

\* C12: at now >= endTime(b) every vote and voteEncrypted call on b fails with
\* 'Ballot has ended' and changes nothing; from then on totalVotes, the
\* participation set and the counters of b never change.
C12_NoVoteAfterEnd ==
    /\ [](\A b \in Ids : now >= ballots[b].endTime =>
            \A s \in Addresses :
                /\ \A c \in IndexInputs : voteCheck(b, s, c) = "Ballot has ended"
                /\ \A e \in EncryptedInputs : voteEncryptedCheck(b, s, e) = "Ballot has ended")
    /\ [][\A b \in Ids : now >= ballots[b].endTime =>
             /\ ballots'[b].totalVotes = ballots[b].totalVotes
             /\ ballots'[b].hasVoted = ballots[b].hasVoted
             /\ ballots'[b].encryptedVotes = ballots[b].encryptedVotes]_vars

\* a ballot that took a vote has ended, and one address has not voted on it
C12_Witness ==
    \E b \in Ids : /\ now >= ballots[b].endTime
                   /\ ballots[b].totalVotes > 0
                   /\ ballots[b].hasVoted # Addresses

\* the BallotCreated events: one per successful createBallot
Created == { e \in events : e.name = "BallotCreated" }

\* C13: getTotalBallots is the number of successful creates, the ids handed
\* out are exactly 0 .. getTotalBallots-1, a ballot exists exactly when its id
\* is below that count; a successful create takes the id equal to the count
\* before it, a failed create takes none, and an id is never given to another
\* ballot.
C13_DenseIds ==
    /\ [](/\ getTotalBallots = Cardinality(Created)
          /\ { e.ballotId : e \in Created } = 0..(getTotalBallots - 1)
          /\ DOMAIN ballots = 0..(getTotalBallots - 1)
          /\ \A id \in IdInputs : (ballotExists(id) = OK) <=> (id < Cardinality(Created)))
    /\ [][/\ \A b \in Ids :
                /\ b \in DOMAIN ballots'
                /\ ballots'[b].title = ballots[b].title
                /\ ballots'[b].candidates = ballots[b].candidates
                /\ ballots'[b].creator = ballots[b].creator
                /\ ballots'[b].endTime = ballots[b].endTime
          /\ ballotCounter' # ballotCounter =>
                \A s \in Addresses : \A t \in Titles :
                \A c \in CandidateInputs : \A d \in DurationInputs :
                    createBallot(s, t, c, d) =>
                        /\ createBallotCheck(c, d) = OK
                        /\ ballotCounter' = ballotCounter + 1
                        /\ Created' \ Created =
                              {BallotCreated(ballotCounter, t, s, ballots'[ballotCounter].endTime)}]_vars

\* a second ballot has been created: ids 0 and 1
C13_Witness ==
    /\ getTotalBallots = 2
    /\ { e.ballotId : e \in Created } = {0, 1}
    /\ ballotExists(1) = OK
    /\ ballotExists(2) # OK

\* C14: after a successful createBallot by s, getBallotInfo of the new id
\* reports the given title and candidates, creator s, isActive, not revealed
\* and no votes; hasVoted is false for every address and every counter of the
\* ballot decrypts to zero.
C14_FreshBallot ==
    [][ballotCounter' # ballotCounter =>
          \A s \in Addresses : \A t \in Titles :
          \A c \in CandidateInputs : \A d \in DurationInputs :
              createBallot(s, t, c, d) =>
                  \E id \in {ballotCounter} :
                      /\ getBallotInfo(id)'.title = t
                      /\ getBallotInfo(id)'.candidates = c
                      /\ getBallotInfo(id)'.creator = s
                      /\ getBallotInfo(id)'.isActive
                      /\ ~getBallotInfo(id)'.resultsRevealed
                      /\ getBallotInfo(id)'.totalVotes = 0
                      /\ \A v \in Addresses : ~hasVoted(id, v)'
                      /\ \A i \in 0..(Len(c) - 1) :
                            /\ getEncryptedVoteCountCheck(id, i)' = OK
                            /\ Decrypt(getEncryptedVoteCount(id, i)') = 0]_vars

\* a ballot of ten candidates that bob has just created
C14_Witness ==
    \E b \in Ids : /\ getBallotInfo(b).creator = "bob"
                   /\ Len(getBallotInfo(b).candidates) = MaxCandidates
                   /\ getBallotInfo(b).isActive
                   /\ getBallotInfo(b).totalVotes = 0
                   /\ \A v \in Addresses : ~hasVoted(b, v)

\* the grants held by principals other than the contract
VoterGrants == { g \in acl : g[2] # Contract }

\* C15: while a ballot is not revealed, only the contract holds a grant on
\* any handle of its counters.
C15_OnlyContractBeforeReveal ==
    \A g \in acl : ~ballots[g[1].ballot].resultsRevealed => g[2] = Contract

\* C16: the contract holds a grant on the current handle of every counter of
\* every ballot.
C16_ContractKeepsAccess ==
    \A b \in Ids : \A i \in 1..Len(ballots[b].candidates) :
        <<ballots[b].encryptedVotes[i], Contract>> \in acl

\* two votes have moved a counter twice, and the contract holds its handle
C16_Witness ==
    \E b \in Ids : \E i \in 1..Len(ballots[b].candidates) :
        /\ Decrypt(ballots[b].encryptedVotes[i]) = 2
        /\ <<ballots[b].encryptedVotes[i], Contract>> \in acl

\* C17: a voter's grants are made by the voter's own accepted vote and are on
\* the counter of the candidate the voter chose, both for vote and for
\* voteEncrypted.
C17_GrantOnChosenCounter ==
    /\ [](\A g \in VoterGrants : g[2] \in ballots[g[1].ballot].hasVoted)
    /\ [][VoterGrants' # VoterGrants =>
             /\ \A s \in Addresses : \A id \in IdInputs : \A c \in IndexInputs :
                   vote(s, id, c) =>
                       \A g \in VoterGrants' \ VoterGrants :
                           g[2] = s /\ g[1].ballot = id /\ g[1].cand = c
             /\ \A s \in Addresses : \A id \in IdInputs : \A e \in EncryptedInputs :
                   voteEncrypted(s, id, e) =>
                       \A g \in VoterGrants' \ VoterGrants :
                           g[2] = s /\ g[1].ballot = id /\ g[1].cand = e.choice]_vars

\* C18: the value a voter reads through the grant of an accepted vote is the
\* one the voter would read had no other address voted before.
C18_GrantShowsOwnVoteOnly ==
    \A b \in Ids : \A s \in Addresses : \A c \in IndexInputs :
        voteCheck(b, s, c) = OK =>
            voterDecrypts(b, c) = Decrypt(FHEadd1(newBallotCounter(b, c)))

\* the ids a caller may name that no ballot has
MissingIds == { id \in IdInputs : id >= ballotCounter }

\* C19: with an id at or above ballotCounter, vote, voteEncrypted, setResults,
\* getBallotInfo, getResults, getEncryptedVoteCount and hasVoted fail with
\* 'Ballot does not exist', and the call changes nothing.
C19_MissingBallot ==
    /\ [](\A id \in MissingIds :
            /\ \A s \in Addresses : \A c \in IndexInputs :
                  voteCheck(id, s, c) = "Ballot does not exist"
            /\ \A s \in Addresses : \A e \in EncryptedInputs :
                  voteEncryptedCheck(id, s, e) = "Ballot does not exist"
            /\ \A r \in ResultInputsFor(id) : setResultsCheck(id, r) = "Ballot does not exist"
            /\ getBallotInfoCheck(id) = "Ballot does not exist"
            /\ getResultsCheck(id) = "Ballot does not exist"
            /\ \A c \in IndexInputs :
                  getEncryptedVoteCountCheck(id, c) = "Ballot does not exist"
            /\ \A v \in Addresses : hasVotedCheck(id, v) = "Ballot does not exist")
    /\ [][chain' # chain =>
             \A id \in MissingIds : \A s \in Addresses :
                 /\ \A c \in IndexInputs : ~vote(s, id, c)
                 /\ \A e \in EncryptedInputs : ~voteEncrypted(s, id, e)
                 /\ \A r \in ResultInputsFor(id) : ~setResults(s, id, r)]_vars

\* id 0 has a ballot that takes votes and id 1 has none
C19_Witness ==
    /\ ballotCounter = 1
    /\ 1 \in MissingIds
    /\ voteCheck(0, "alice", 0) = OK
    /\ voteCheck(1, "alice", 0) = "Ballot does not exist"
    /\ getBallotInfoCheck(0) = OK

CounterValues(b) ==
    [i \in 1..Len(ballots[b].encryptedVotes) |-> Decrypt(ballots[b].encryptedVotes[i])]

\* C22: voteEncrypted with a proof that does not verify fails, with the proof
\* error where the call would otherwise be accepted, and changes nothing; the
\* same caller is then accepted with a valid proof.
C22_ProofBeforeCredit ==
    /\ [](\A b \in Ids : \A s \in Addresses : \A e \in EncryptedInputs :
            ~e.proofValid =>
                /\ voteEncryptedCheck(b, s, e) # OK
                /\ voteModifiers(b, s) = OK =>
                      /\ voteEncryptedCheck(b, s, e) = "Invalid input proof"
                      /\ voteEncryptedCheck(b, s, [e EXCEPT !.proofValid = TRUE]) = OK)
    /\ [][chain' # chain =>
             \A s \in Addresses : \A id \in IdInputs : \A e \in EncryptedInputs :
                 ~e.proofValid => ~voteEncrypted(s, id, e)]_vars

\* an open ballot with one vote, where an address that has not voted is
\* refused for its proof
C22_Witness ==
    \E b \in Ids : \E s \in Addresses : \E e \in EncryptedInputs :
        /\ ballots[b].totalVotes = 1
        /\ ~e.proofValid
        /\ voteEncryptedCheck(b, s, e) = "Invalid input proof"

C24_RevealIsAtomic ==
    /\ [](\A b \in Ids : ~ballots[b].resultsRevealed =>
            \A i \in 1..Len(ballots[b].candidates) : ballots[b].finalResults[i] = 0)
    /\ [][/\ \A b \in Ids :
                (\/ ballots'[b].finalResults # ballots[b].finalResults
                 \/ ballots'[b].resultsRevealed # ballots[b].resultsRevealed) =>
                    /\ ~ballots[b].resultsRevealed
                    /\ ballots'[b].resultsRevealed
                    /\ \E s \in Addresses : \E r \in ResultInputsFor(b) :
                          setResultsCheck(b, r) = OK /\ setResults(s, b, r)
          /\ chain' # chain =>
                \A s \in Addresses : \A id \in IdInputs : \A r \in ResultInputsFor(id) :
                    setResultsCheck(id, r) # OK => ~setResults(s, id, r)]_vars

\* an ended ballot with a vote, not revealed, for which a commit of the wrong
\* length is refused
C24_Witness ==
    \E b \in Ids : \E r \in ResultInputsFor(b) :
        /\ now >= ballots[b].endTime
        /\ ballots[b].totalVotes > 0
        /\ ~ballots[b].resultsRevealed
        /\ setResultsCheck(b, r) = "Invalid results length"

\* totalVotes, the participation set and the counters of ballot b are the same
\* in the next state
TallyUnchanged(b) ==
    /\ ballots'[b].totalVotes = ballots[b].totalVotes
    /\ ballots'[b].hasVoted = ballots[b].hasVoted
    /\ ballots'[b].encryptedVotes = ballots[b].encryptedVotes

\* C26: createBallot and setResults leave totalVotes, the participation set
\* and the counters of every existing ballot; vote and voteEncrypted on one
\* ballot leave every other ballot; no step changes the title, candidates,
\* endTime or creator of an existing ballot.
C26_Frame ==
    [][/\ \A b \in Ids :
             /\ ballots'[b].title = ballots[b].title
             /\ ballots'[b].candidates = ballots[b].candidates
             /\ ballots'[b].endTime = ballots[b].endTime
             /\ ballots'[b].creator = ballots[b].creator
       /\ chain' # chain =>
             /\ \A s \in Addresses : \A t \in Titles :
                \A c \in CandidateInputs : \A d \in DurationInputs :
                    createBallot(s, t, c, d) => \A b \in Ids : TallyUnchanged(b)
             /\ \A s \in Addresses : \A id \in IdInputs : \A r \in ResultInputsFor(id) :
                    setResults(s, id, r) => \A b \in Ids : TallyUnchanged(b)
             /\ \A s \in Addresses : \A id \in IdInputs : \A c \in IndexInputs :
                    vote(s, id, c) => \A b \in Ids \ {id} : ballots'[b] = ballots[b]
             /\ \A s \in Addresses : \A id \in IdInputs : \A e \in EncryptedInputs :
                    voteEncrypted(s, id, e) =>
                        \A b \in Ids \ {id} : ballots'[b] = ballots[b]]_vars

\* two ballots hold votes, and one of them has been revealed
C26_Witness ==
    \E a \in Ids : \E b \in Ids \ {a} :
        /\ ballots[a].totalVotes > 0
        /\ ballots[a].resultsRevealed
        /\ ballots[b].totalVotes > 0

\* the three phases of a ballot
PhaseActive(b) == ballots[b].isActive /\ now < ballots[b].endTime
PhaseEndedPending(b) == now >= ballots[b].endTime /\ ~ballots[b].resultsRevealed
PhaseRevealed(b) == ballots[b].resultsRevealed
\* their order
PhaseRank(b) ==
    IF PhaseRevealed(b) THEN 3 ELSE IF PhaseEndedPending(b) THEN 2 ELSE 1

\* C27: every ballot is in exactly one of Active, Ended-Pending and Revealed;
\* no step moves a ballot to an earlier phase; a ballot that is not Active
\* accepts no vote; a Revealed ballot stays Revealed.
C27_PhasesInOrder ==
    /\ [](\A b \in Ids :
            /\ Cardinality({ p \in {"Active", "EndedPending", "Revealed"} :
                               \/ p = "Active" /\ PhaseActive(b)
                               \/ p = "EndedPending" /\ PhaseEndedPending(b)
                               \/ p = "Revealed" /\ PhaseRevealed(b) }) = 1
            /\ ~PhaseActive(b) =>
                  \A s \in Addresses :
                      /\ \A c \in IndexInputs : voteCheck(b, s, c) # OK
                      /\ \A e \in EncryptedInputs : voteEncryptedCheck(b, s, e) # OK)
    /\ [][\A b \in Ids :
             /\ PhaseRank(b)' >= PhaseRank(b)
             /\ ~PhaseActive(b) => ~PhaseActive(b)'
             /\ PhaseRevealed(b) => PhaseRevealed(b)']_vars

\* one ballot is revealed while another is still open
C27_Witness ==
    \E a \in Ids : \E b \in Ids : PhaseRevealed(a) /\ PhaseActive(b)

\* the ResultsRevealed events: one per accepted setResults
Revealed == { e \in events : e.name = "ResultsRevealed" }

\* C28: after an accepted setResults, getResults returns for every candidate
\* the value the call was made with, which the ResultsRevealed event carries.
C28_ResultsAsCommitted ==
    \A e \in Revealed :
        /\ getResultsCheck(e.ballotId) = OK
        /\ getResults(e.ballotId) = e.results

\* C21: after a reveal through the hook, getResults holds for every candidate
\* the number of accepted votes that chose it; every accepted vote of this
\* scenario chose HookInput.choice, and totalVotes counts them.
C21_RevealCountsChoices ==
    \A b \in Ids : ballots[b].resultsRevealed =>
        getResults(b) = [i \in 1..Len(ballots[b].candidates) |->
                            IF i - 1 = HookInput.choice THEN ballots[b].totalVotes ELSE 0]

\* C25: whichever decryptions fail, the array the hook is about to commit has
\* one entry per candidate, 0 at the failed positions and the decrypted count
\* at the others.
C25_SoftFailureArray ==
    \A u \in Addresses : revealing[u].pc = "commit" =>
        \A failed \in SUBSET (0..(Len(ballots[revealing[u].ballotId].candidates) - 1)) :
            revealing[u].results = taskResults(revealing[u].ballotId, failed)

\* no loadBallots, createBallot, vote or revealResults of u is in flight
ActionsIdle(u) ==
    /\ ~calls[u].loadFlag /\ ~calls[u].createFlag /\ ~calls[u].voteFlag
    /\ revealing[u].pc = "idle"

\* u's list shows the contract's state: every ballot, with its totalVotes,
\* hasUserVoted and resultsRevealed
Fresh(u) ==
    /\ Len(hookBallots[u]) = getTotalBallots
    /\ \A i \in 1..Len(hookBallots[u]) :
          /\ hookBallots[u][i].totalVotes = getBallotInfo(i - 1).totalVotes
          /\ hookBallots[u][i].hasUserVoted = hasVoted(i - 1, u)
          /\ hookBallots[u][i].resultsRevealed = getBallotInfo(i - 1).resultsRevealed

C30_ListCatchesUp ==
    (ActionsIdle(Caller) /\ ~calls[Caller].error) ~> Fresh(Caller)

====
